---- MODULE Spec2Model ----
(***************************************************************************)
(* wasm-sockets: the EventClient (connection status cell, four handler     *)
(* slots, message classification) and the PollingClient built on it        *)
(* (status mirror, message buffer, receive()).  src/src/lib.rs             *)
(*                                                                         *)
(* The host is single-threaded: every transport callback runs to           *)
(* completion before the next one starts, so each callback is one action.  *)
(* The transport (web_sys::WebSocket) is the environment: it may call any  *)
(* of the four registered closures, in any order, with any of the three    *)
(* payload shapes onmessage_callback recognises, and a FileReader started  *)
(* by the blob branch may complete at any later time.  Lifecycle narrows   *)
(* the traces to a WebSocket's event order where a property is stated for  *)
(* such traces only.                                                       *)
(***************************************************************************)
EXTENDS Naturals, Sequences, FiniteSets

\* ---------------------------------------------------------------- bounds
\* Transport notifications (open, error, close, message) delivered in a run.
MaxEvents == 3
\* PollingClient::receive calls in a run.
MaxReceives == 2
\* set_on_* calls made by user code in a run.
MaxSets == 2
\* set_on_* calls made on the event_client of a PollingClient in a run.
MaxReplacements == 1
\* send_string / send_binary calls in a run.
MaxSends == 2

\* ---------------------------------------------------------------- values
\* enum ConnectionStatus
ConnectionStatus == {"Connecting", "Connected", "Error", "Disconnected"}

\* Option::None in a handler slot.
None == "None"
\* The closures PollingClient::new installs (one per slot).
Internal == "internal"
\* Closures user code may register.
UserHandlers == {"f", "g"}
\* Closures user code may register whose body calls set_on_X on the client,
\* one per kind X, each passing Some(NewHandler).
ReentrantHandlers == {"set_error", "set_open", "set_message", "set_close"}

NewHandler == "g"

\* The kind whose set_on_X a closure calls from its body.
Target(h) ==
    CASE h = "set_error" -> "error"
      [] h = "set_open" -> "open"
      [] h = "set_message" -> "message"
      [] h = "set_close" -> "close"

\* enum Message: Text(String) | Binary(Vec<u8>).  ev is a ghost field: the
\* ordinal of the transport message event the value was produced from.
Text(s, n) == [tag |-> "Text", body |-> s, ev |-> n]
Binary(v, n) == [tag |-> "Binary", body |-> v, ev |-> n]

\* A Rust String is a sequence of chars, a JS string a sequence of UTF-16
\* code units.  "U1F600" is a char outside the basic plane, "HI" and "LO" the
\* two surrogate units a JS string spells it with; every other token is a
\* basic-plane char and its single unit.  "UFFFD" is the replacement char.
Hello == <<"h", "e", "l", "l", "o">>

\* &str -> JS string, as send_with_str passes its argument.
RECURSIVE to_js(_)
to_js(str) ==
    IF str = <<>> THEN <<>>
    ELSE IF Head(str) = "U1F600" THEN <<"HI", "LO">> \o to_js(Tail(str))
    ELSE <<Head(str)>> \o to_js(Tail(str))

\* JsString -> String with every code unit taken for a char.
RECURSIVE from_js_units(_)
from_js_units(txt) ==
    IF txt = <<>> THEN <<>> ELSE <<Head(txt)>> \o from_js_units(Tail(txt))

\* JsString -> String (`txt.into()`): a surrogate pair becomes one char, a
\* surrogate without its partner becomes the replacement char.
RECURSIVE from_js(_)
from_js(txt) ==
    IF txt = <<>> THEN <<>>
    ELSE IF Head(txt) = "HI" /\ Len(txt) >= 2 /\ txt[2] = "LO"
    THEN <<"U1F600">> \o from_js(Tail(Tail(txt)))
    ELSE IF Head(txt) \in {"HI", "LO"}
    THEN <<"UFFFD">> \o from_js(Tail(txt))
    ELSE <<Head(txt)>> \o from_js(Tail(txt))

\* What MessageEvent::data() can hold: the three shapes onmessage_callback
\* recognises.
Payloads ==
    { [shape |-> "arraybuffer", bytes |-> <<20>>],
      [shape |-> "blob", bytes |-> <<2, 15>>],
      [shape |-> "text", bytes |-> to_js(Hello)] }

\* js_sys::Uint8Array::new(&buf).to_vec(): a byte-for-byte copy.
to_vec(buf) == [i \in 1..Len(buf) |-> buf[i]]

\* ---------------------------------------------------------------- state
VARIABLES
    status,          \* EventClient.status cell
    on_error,        \* EventClient.on_error slot
    on_connection,   \* EventClient.on_connection slot
    on_message,      \* EventClient.on_message slot
    on_close,        \* EventClient.on_close slot
    readers,         \* FileReaders whose read_as_array_buffer is in flight
    polling,         \* TRUE when the EventClient is wrapped by a PollingClient
    polling_status,  \* PollingClient.status cell
    data,            \* PollingClient.data buffer
    trace,           \* history: transport notifications in delivery order,
                     \*   each with the handler its slot held at that time
    registered,      \* history: the value last passed to each set_on_*
    calls,           \* history: invocations of user handlers
    appended,        \* history: every message pushed to data
    received,        \* history: each receive() call: its result, and how
                     \*   many notifications (at) and buffer pushes (napp)
                     \*   had happened when it was made
    observed,        \* history: distinct successive values of status()
    sets,            \* history: number of set_on_* calls by user code
    sends            \* history: each send_string / send_binary call

slots == <<on_error, on_connection, on_message, on_close>>
pollvars == <<polling_status, data, appended, observed>>
vars == <<status, on_error, on_connection, on_message, on_close, readers,
          polling, polling_status, data, trace, registered, calls, appended,
          received, observed, sets, sends>>

Kinds == {"error", "open", "message", "close"}

\* The slot a notification of each kind is dispatched through.
Slot(kind) ==
    CASE kind = "error" -> on_error
      [] kind = "open" -> on_connection
      [] kind = "message" -> on_message
      [] kind = "close" -> on_close

Last(s) == s[Len(s)]

\* The results of the receive() calls so far, concatenated in call order.
RECURSIVE Flatten(_)
Flatten(rs) == IF rs = <<>> THEN <<>> ELSE Head(rs).result \o Flatten(Tail(rs))

\* ---------------------------------------------------------------- construction
\* EventClient::new: status Connecting, the four slots empty.
EventClientNew ==
    /\ status = "Connecting"
    /\ on_error = None
    /\ on_connection = None
    /\ on_message = None
    /\ on_close = None
    /\ readers = {}

\* PollingClient::new: an EventClient, a fresh status cell and buffer, and
\* the four internal closures installed through set_on_*.
PollingClientNew ==
    /\ status = "Connecting"
    /\ readers = {}
    /\ polling_status = "Connecting"
    /\ data = <<>>
    /\ on_connection = Internal
    /\ on_error = Internal
    /\ on_close = Internal
    /\ on_message = Internal

History ==
    /\ trace = <<>>
    /\ registered = [k \in Kinds |-> Slot(k)]
    /\ calls = <<>>
    /\ appended = <<>>
    /\ received = <<>>
    /\ observed = <<"Connecting">>
    /\ sets = 0
    /\ sends = <<>>

\* A bare EventClient: no PollingClient exists, its cells are never written.
InitEvent ==
    /\ polling = FALSE
    /\ EventClientNew
    /\ polling_status = "Connecting"
    /\ data = <<>>
    /\ History

\* A PollingClient and the EventClient it owns.
InitPolling ==
    /\ polling = TRUE
    /\ PollingClientNew
    /\ History

\* ---------------------------------------------------------------- client handles
\* An EventClient value is a struct of Rc handles.  A handle is named by the
\* cell it points to: "shared" for the cell created once in EventClient::new
\* and cloned, otherwise the struct that got a cell of its own.
Shared(cell) == [cell |-> cell, of |-> "shared"]

Own(cell, struct) == [cell |-> cell, of |-> struct]

\* The client new() keeps for its callbacks and passes to on_connection and
\* on_message, with a status cell of its own (a copy of the value).
InnerClient_own_status ==
    [ url |-> Own("url", "inner"),
      connection |-> Shared("connection"),
      on_error |-> Shared("on_error"),
      on_connection |-> Shared("on_connection"),
      status |-> Own("status", "inner"),
      on_message |-> Shared("on_message"),
      on_close |-> Shared("on_close") ]

\* The client new() keeps for its callbacks and passes to on_connection and
\* on_message.
InnerClient ==
    [ url |-> Own("url", "inner"),
      connection |-> Shared("connection"),
      on_error |-> Shared("on_error"),
      on_connection |-> Shared("on_connection"),
      status |-> Shared("status"),
      on_message |-> Shared("on_message"),
      on_close |-> Shared("on_close") ]

\* The client new() returns.
ReturnedClient ==
    [ url |-> Own("url", "returned"),
      connection |-> Shared("connection"),
      on_error |-> Shared("on_error"),
      on_connection |-> Shared("on_connection"),
      on_message |-> Shared("on_message"),
      on_close |-> Shared("on_close"),
      status |-> Shared("status") ]

\* The value a cell that only its own struct holds has kept since new().
Unshared(cell) == IF cell = "status" THEN "Connecting" ELSE None

\* The value read through a handle.
Cell(h) ==
    IF h.of # "shared" THEN Unshared(h.cell)
    ELSE CASE h.cell = "status" -> status
           [] h.cell = "on_error" -> on_error
           [] h.cell = "on_connection" -> on_connection
           [] h.cell = "on_message" -> on_message
           [] h.cell = "on_close" -> on_close

\* client.status as a handler reads it while it runs: after the callback's
\* own write, if any.
StatusSeen(client) ==
    IF client.status.of = "shared" THEN status' ELSE Unshared("status")

\* The client a handler of each kind can read: on_connection and on_message
\* get the inner client, on_error and on_close closures only what they
\* captured from the returned one.
HandleFor(kind) ==
    IF kind \in {"open", "message"} THEN InnerClient ELSE ReturnedClient

\* ---------------------------------------------------------------- handlers
\* The ghost log of status() values, extended when the cell's value changes.
Observe(s) == IF s = Last(observed) THEN observed ELSE Append(observed, s)

\* The closures installed by PollingClient::new write the PollingClient's own
\* status cell (open, error, close) or push to its buffer (message).
InternalStatusHandler(s) ==
    /\ polling_status' = s
    /\ observed' = Observe(s)
    /\ UNCHANGED <<data, appended, calls>>

\* The three status closures PollingClient::new installs.
PollingOnConnection == InternalStatusHandler("Connected")

\* The on_error closure writing the status of a clean close.
PollingOnError_disconnected == InternalStatusHandler("Disconnected")

PollingOnError == InternalStatusHandler("Error")

\* The on_close closure writing the error status (a copied line left as is).
PollingOnClose_error == InternalStatusHandler("Error")

\* The on_close closure emptying the buffer as it records the close.
PollingOnClose_drop ==
    /\ polling_status' = "Disconnected"
    /\ observed' = Observe("Disconnected")
    /\ data' = <<>>
    /\ UNCHANGED <<appended, calls>>

PollingOnClose == InternalStatusHandler("Disconnected")

\* The on_message closure inserting at the front of the buffer.
InternalOnMessage_front(m) ==
    /\ data' = <<m>> \o data
    /\ appended' = Append(appended, m)
    /\ UNCHANGED <<polling_status, observed, calls>>

InternalOnMessage(m) ==
    /\ data' = Append(data, m)
    /\ appended' = Append(appended, m)
    /\ UNCHANGED <<polling_status, observed, calls>>

\* The slots a dispatch that clones the handler out of the slot keeps
\* borrowed while the handler runs: none.
Borrowed_released(kind) == {}

\* The slots borrowed while a handler of the kind runs: `&*slot.borrow()` in
\* the `if let` keeps the shared borrow of that kind's slot until the call
\* returns.
Borrowed(kind) == {kind}

\* RefCell::borrow_mut on the slot of a kind: a panic while a borrow of it
\* is alive.
borrow_mut(kind, borrowed) == IF kind \in borrowed THEN "panic" ELSE "ok"

\* `*self.on_X.borrow_mut() = f` for the slot of kind X.
SetSlot(kind, f) ==
    /\ on_error' = IF kind = "error" THEN f ELSE on_error
    /\ on_connection' = IF kind = "open" THEN f ELSE on_connection
    /\ on_message' = IF kind = "message" THEN f ELSE on_message
    /\ on_close' = IF kind = "close" THEN f ELSE on_close
    /\ registered' = [registered EXCEPT ![kind] = f]

\* What a closure that calls no set_on_X did.
NoSet == [set |-> "none", result |-> "ok"]

\* A user closure: its invocation is recorded with the event it was called
\* for (n: the ordinal of the transport notification), its argument, and
\* the status it reads through its client.  A closure that calls set_on_X
\* does so while the dispatch borrows the slot the closure was found in:
\* the call panics at borrow_mut, or stores the new handler.
UserHandler(kind, h, n, arg) ==
    LET call(did) == [kind |-> kind, h |-> h, ev |-> n, arg |-> arg,
                      seen |-> StatusSeen(HandleFor(kind)), did |-> did]
    IN
    /\ UNCHANGED pollvars
    /\ IF h \in ReentrantHandlers
       THEN LET result == borrow_mut(Target(h), Borrowed(kind)) IN
            /\ calls' = Append(calls, call([set |-> Target(h),
                                             result |-> result]))
            /\ IF result = "ok"
               THEN SetSlot(Target(h), NewHandler)
               ELSE UNCHANGED <<slots, registered>>
       ELSE /\ calls' = Append(calls, call(NoSet))
            /\ UNCHANGED <<slots, registered>>

\* A dispatch that runs the PollingClient's closure for every handler found
\* in a slot of its event_client, as if the closures were chained in front
\* of the slot instead of stored in it.
Dispatch_chained(slot, kind, n, arg) ==
    IF slot = None
    THEN UNCHANGED <<pollvars, calls, slots, registered>>
    ELSE IF slot = Internal \/ polling
    THEN /\ CASE kind = "open" -> PollingOnConnection
              [] kind = "error" -> PollingOnError
              [] kind = "close" -> PollingOnClose
              [] kind = "message" -> InternalOnMessage(arg)
         /\ UNCHANGED <<slots, registered>>
    ELSE UserHandler(kind, slot, n, arg)

\* `if let Some(f) = &*slot.borrow() { f(..) }`
Dispatch(slot, kind, n, arg) ==
    IF slot = None
    THEN UNCHANGED <<pollvars, calls, slots, registered>>
    ELSE IF slot = Internal
    THEN /\ CASE kind = "open" -> PollingOnConnection
              [] kind = "error" -> PollingOnError
              [] kind = "close" -> PollingOnClose
              [] kind = "message" -> InternalOnMessage(arg)
         /\ UNCHANGED <<slots, registered>>
    ELSE UserHandler(kind, slot, n, arg)

\* ---------------------------------------------------------------- transport callbacks
Notify(kind, payload) ==
    /\ Len(trace) < MaxEvents
    /\ trace' = Append(trace, [kind |-> kind, payload |-> payload,
                                slot |-> Slot(kind)])

NoPayload == [shape |-> "none", bytes |-> <<>>]

\* onerror_callback with the status write inside the `if let Some(f)`.
onerror_callback_guarded ==
    /\ Notify("error", NoPayload)
    /\ status' = IF on_error = None THEN status ELSE "Error"
    /\ Dispatch(on_error, "error", Len(trace) + 1, None)
    /\ UNCHANGED <<readers, polling, received, sets, sends>>

onerror_callback ==
    /\ Notify("error", NoPayload)
    /\ status' = "Error"
    /\ Dispatch(on_error, "error", Len(trace) + 1, None)
    /\ UNCHANGED <<readers, polling, received, sets, sends>>

\* onclose_callback putting the status back to its initial value.
onclose_callback_reset ==
    /\ Notify("close", NoPayload)
    /\ status' = "Connecting"
    /\ Dispatch(on_close, "close", Len(trace) + 1, None)
    /\ UNCHANGED <<readers, polling, received, sets, sends>>

onclose_callback ==
    /\ Notify("close", NoPayload)
    /\ status' = "Disconnected"
    /\ Dispatch(on_close, "close", Len(trace) + 1, None)
    /\ UNCHANGED <<readers, polling, received, sets, sends>>

\* onopen_callback dispatching first and storing the status afterwards: the
\* handler reads the status the cell held before the notification.
onopen_callback_dispatch_first ==
    /\ Notify("open", NoPayload)
    /\ status' = "Connected"
    /\ IF on_connection \in UserHandlers
       THEN /\ calls' = Append(calls, [kind |-> "open", h |-> on_connection,
                                       ev |-> Len(trace) + 1, arg |-> None,
                                       seen |-> status, did |-> NoSet])
            /\ UNCHANGED <<pollvars, slots, registered>>
       ELSE Dispatch(on_connection, "open", Len(trace) + 1, None)
    /\ UNCHANGED <<readers, polling, received, sets, sends>>

onopen_callback ==
    /\ Notify("open", NoPayload)
    /\ status' = "Connected"
    /\ Dispatch(on_connection, "open", Len(trace) + 1, None)
    /\ UNCHANGED <<readers, polling, received, sets, sends>>

\* onmessage_callback reading array buffers through a FileReader as well.
onmessage_callback_async(p) ==
    /\ Notify("message", p)
    /\ UNCHANGED <<status, polling, received, sets, sends>>
    /\ LET n == Len(trace) + 1 IN
       CASE p.shape \in {"arraybuffer", "blob"} ->
              /\ readers' = readers \cup {[ev |-> n, blob |-> p.bytes]}
              /\ UNCHANGED <<pollvars, calls, slots, registered>>
         [] p.shape = "text" ->
              /\ Dispatch(on_message, "message", n, Text(from_js(p.bytes), n))
              /\ UNCHANGED readers

onmessage_callback(p) ==
    /\ Notify("message", p)
    /\ UNCHANGED <<status, polling, received, sets, sends>>
    /\ LET n == Len(trace) + 1 IN
       CASE p.shape = "arraybuffer" ->
              /\ Dispatch(on_message, "message", n, Binary(to_vec(p.bytes), n))
              /\ UNCHANGED readers
         [] p.shape = "blob" ->
              /\ readers' = readers \cup {[ev |-> n, blob |-> p.bytes]}
              /\ UNCHANGED <<pollvars, calls, slots, registered>>
         [] p.shape = "text" ->
              /\ Dispatch(on_message, "message", n, Text(from_js(p.bytes), n))
              /\ UNCHANGED readers

\* The FileReader's loadend: the slot is read now, not when the blob arrived.
onloadend_cb(r) ==
    /\ r \in readers
    /\ UNCHANGED <<status, polling, received, trace, sets, sends>>
    /\ readers' = readers \ {r}
    /\ Dispatch(on_message, "message", r.ev, Binary(to_vec(r.blob), r.ev))

\* ---------------------------------------------------------------- API
SetGuard == sets < MaxSets /\ sets' = sets + 1

set_on_error(f) ==
    /\ SetGuard
    /\ on_error' = f
    /\ registered' = [registered EXCEPT !["error"] = f]
    /\ UNCHANGED <<status, on_connection, on_message, on_close, readers,
                   polling, pollvars, trace, calls, received, sends>>

set_on_connection(f) ==
    /\ SetGuard
    /\ on_connection' = f
    /\ registered' = [registered EXCEPT !["open"] = f]
    /\ UNCHANGED <<status, on_error, on_message, on_close, readers,
                   polling, pollvars, trace, calls, received, sends>>

\* set_on_message that ignores None instead of clearing the slot.
set_on_message_keep(f) ==
    /\ SetGuard
    /\ on_message' = IF f = None THEN on_message ELSE f
    /\ registered' = [registered EXCEPT !["message"] = f]
    /\ UNCHANGED <<status, on_error, on_connection, on_close, readers,
                   polling, pollvars, trace, calls, received, sends>>

set_on_message(f) ==
    /\ SetGuard
    /\ on_message' = f
    /\ registered' = [registered EXCEPT !["message"] = f]
    /\ UNCHANGED <<status, on_error, on_connection, on_close, readers,
                   polling, pollvars, trace, calls, received, sends>>

\* set_on_close that keeps a handler already in the slot.
set_on_close_first_wins(f) ==
    /\ SetGuard
    /\ on_close' = IF on_close = None THEN f ELSE on_close
    /\ registered' = [registered EXCEPT !["close"] = f]
    /\ UNCHANGED <<status, on_error, on_connection, on_message, readers,
                   polling, pollvars, trace, calls, received, sends>>

set_on_close(f) ==
    /\ SetGuard
    /\ on_close' = f
    /\ registered' = [registered EXCEPT !["close"] = f]
    /\ UNCHANGED <<status, on_error, on_connection, on_message, readers,
                   polling, pollvars, trace, calls, received, sends>>

\* receive with the clear before the clone: every call returns nothing.
receive_clear_first ==
    /\ polling
    /\ Len(received) < MaxReceives
    /\ data' = <<>>
    /\ received' = Append(received, [at |-> Len(trace),
                                      napp |-> Len(appended),
                                      result |-> <<>>])
    /\ UNCHANGED <<status, slots, readers, polling, polling_status, trace,
                   registered, calls, appended, observed, sets, sends>>

\* receive without the clear: the buffer keeps what was returned.
receive_no_clear ==
    /\ polling
    /\ Len(received) < MaxReceives
    /\ received' = Append(received, [at |-> Len(trace),
                                      napp |-> Len(appended),
                                      result |-> data])
    /\ UNCHANGED <<status, slots, readers, polling, polling_status, data,
                   trace, registered, calls, appended, observed, sets, sends>>

\* PollingClient::receive: clone the buffer, clear it, return the clone.
receive ==
    /\ polling
    /\ Len(received) < MaxReceives
    /\ LET result == data IN
       /\ data' = <<>>
       /\ received' = Append(received, [at |-> Len(trace),
                                         napp |-> Len(appended),
                                         result |-> result])
    /\ UNCHANGED <<status, slots, readers, polling, polling_status, trace,
                   registered, calls, appended, observed, sets, sends>>

\* ---------------------------------------------------------------- sending
\* WebSocket.readyState.  The host changes it in the task that fires the
\* event: OPEN with the open event, CLOSED with the error or close event of
\* a connection that failed or ended.
ReadyState(t) ==
    IF \E i \in 1..Len(t) : t[i].kind \in {"error", "close"} THEN "CLOSED"
    ELSE IF \E i \in 1..Len(t) : t[i].kind = "open" THEN "OPEN"
    ELSE "CONNECTING"

\* WebSocket.send as web_sys binds it (send_with_str, send_with_u8_array):
\* the InvalidStateError thrown while CONNECTING comes back as Err(JsValue);
\* in every other state the call returns Ok (once closed, the data is dropped).
ws_send(ready) == IF ready = "CONNECTING" THEN "Err" ELSE "Ok"

\* What the program can pass to send_string and send_binary.
Strings == { <<"h", "U1F600">>, <<"UFFFD">> }

ByteVecs == { <<2, 15>> }

\* A send that takes a failed send for a lost connection and records it in
\* the status.
EventSend_teardown(via, fn, message, frame) ==
    /\ Len(sends) < MaxSends
    /\ LET ready == ReadyState(trace) IN
       /\ sends' = Append(sends, [via |-> via, fn |-> fn, message |-> message,
                                   frame |-> frame, at |-> Len(trace),
                                   ready |-> ready, result |-> ws_send(ready)])
       /\ status' = IF ws_send(ready) = "Err" THEN "Error" ELSE status
    /\ UNCHANGED <<slots, readers, polling, pollvars, trace, registered,
                   calls, received, sets>>

\* EventClient::send_string / send_binary: borrow the connection, hand the
\* message to the WebSocket, return its Result.  frame is what goes to the
\* wire when the socket is open.
EventSend(via, fn, message, frame) ==
    /\ Len(sends) < MaxSends
    /\ LET ready == ReadyState(trace) IN
       sends' = Append(sends, [via |-> via, fn |-> fn, message |-> message,
                                frame |-> frame, at |-> Len(trace),
                                ready |-> ready, result |-> ws_send(ready)])
    /\ UNCHANGED <<status, slots, readers, polling, pollvars, trace,
                   registered, calls, received, sets>>

send_string(message) ==
    EventSend("EventClient", "send_string", message,
              [shape |-> "text", bytes |-> to_js(message)])

send_binary(message) ==
    EventSend("EventClient", "send_binary", message,
              [shape |-> "binary", bytes |-> to_vec(message)])

\* PollingClient::send_string / send_binary: delegation to event_client.
polling_send_string(message) ==
    /\ polling
    /\ EventSend("PollingClient", "send_string", message,
                 [shape |-> "text", bytes |-> to_js(message)])

polling_send_binary(message) ==
    /\ polling
    /\ EventSend("PollingClient", "send_binary", message,
                 [shape |-> "binary", bytes |-> to_vec(message)])

\* A cooperating echo server: a frame that went to the wire comes back as a
\* message event, a text frame as a JS string, a binary frame as an array
\* buffer or a blob.
Echo ==
    \E i \in 1..Len(sends) :
        /\ sends[i].ready = "OPEN"
        /\ sends[i].result = "Ok"
        /\ LET f == sends[i].frame IN
           IF f.shape = "text"
           THEN onmessage_callback(f)
           ELSE \E sh \in {"arraybuffer", "blob"} :
                    onmessage_callback([shape |-> sh, bytes |-> f.bytes])

Send ==
    \/ \E m \in Strings : send_string(m)
    \/ \E m \in ByteVecs : send_binary(m)

PollingSend ==
    \/ \E m \in Strings : polling_send_string(m)
    \/ \E m \in ByteVecs : polling_send_binary(m)

Transport ==
    \/ onerror_callback
    \/ onclose_callback
    \/ onopen_callback
    \/ \E p \in Payloads : onmessage_callback(p)
    \/ \E r \in readers : onloadend_cb(r)

SetHandler ==
    \/ \E f \in UserHandlers \cup {None} : set_on_error(f)
    \/ \E f \in UserHandlers \cup {None} : set_on_connection(f)
    \/ \E f \in UserHandlers \cup {None} : set_on_message(f)
    \/ \E f \in UserHandlers \cup {None} : set_on_close(f)

\* User code holding an EventClient: registers handlers, the transport calls back.
NextEvent == Transport \/ SetHandler

\* User code holding a PollingClient and using its pull API only.
NextPolling == Transport \/ receive

SpecEvent == InitEvent /\ [][NextEvent]_vars

SpecPolling == InitPolling /\ [][NextPolling]_vars

\* User code that sends through either client while the transport connects,
\* opens, fails or closes.
NextSend ==
    \/ onerror_callback
    \/ onclose_callback
    \/ onopen_callback
    \/ Send
    \/ PollingSend

SpecSend == InitPolling /\ [][NextSend]_vars

\* User code holding an EventClient that registers its on_message handler
\* once and sends to an echo server: the only messages are echoes of what
\* was sent.
NextEcho ==
    \/ onopen_callback
    \/ Echo
    \/ \E r \in readers : onloadend_cb(r)
    \/ registered["message"] = None /\ \E f \in UserHandlers : set_on_message(f)
    \/ Send

SpecEcho == InitEvent /\ [][NextEcho]_vars

\* The order in which a WebSocket reports its events: open first if at all,
\* messages only while open, an error only once and before the close,
\* nothing after the close.
Lifecycle(t) ==
    \A i \in 1..Len(t) :
        LET k == t[i].kind IN
        /\ k = "open" => i = 1
        /\ k = "message" => i > 1 /\ t[i-1].kind \in {"open", "message"}
        /\ k = "error" => i = 1 \/ t[i-1].kind \in {"open", "message"}
        /\ k = "close" => i = 1 \/ t[i-1].kind \in {"open", "message", "error"}

\* User code holding a PollingClient that also replaces handlers on its
\* public event_client field, on a WebSocket that reports its events in
\* their order.
NextEscape ==
    \/ Transport /\ Lifecycle(trace')
    \/ sets < MaxReplacements /\ SetHandler
    \/ receive

SpecEscape == InitPolling /\ [][NextEscape]_vars

\* The polling loop of examples/polling.rs: receive() is called from a timer
\* for as long as the page lives, so it is called again after whatever the
\* transport does.
NextLive ==
    \/ Len(received) < MaxReceives /\ Transport
    \/ receive

SpecPollingLive == InitPolling /\ [][NextLive]_vars /\ WF_vars(receive)

\* A borrow panic has stopped the program (the panic hook, then a trap).
Panicked == \E i \in 1..Len(calls) : calls[i].did.result = "panic"

\* User code registering closures that call set_on_X from their bodies.
RegisterReentrant ==
    \/ \E h \in ReentrantHandlers : set_on_error(h)
    \/ \E h \in ReentrantHandlers : set_on_connection(h)
    \/ \E h \in ReentrantHandlers : set_on_message(h)
    \/ \E h \in ReentrantHandlers : set_on_close(h)

\* User code holding an EventClient whose handlers replace handlers, on a
\* WebSocket that reports its events in their order, until a panic.
NextReentrant ==
    \/ ~Panicked /\ Transport /\ Lifecycle(trace')
    \/ ~Panicked /\ RegisterReentrant

SpecReentrant == InitEvent /\ [][NextReentrant]_vars

\* ---------------------------------------------------------------- properties
\* The message event a Message value was produced from was a blob.
FromBlob(m) == trace[m.ev].payload.shape = "blob"

\* C1: once the status is Error, a close notification leaves it Error: when
\* the transport has reported an error and then a close, the status of the
\* EventClient and the status() of the PollingClient are both still Error.
C1_ErrorSurvivesClose ==
    ( /\ Lifecycle(trace)
      /\ Len(trace) >= 2
      /\ trace[Len(trace) - 1].kind = "error"
      /\ trace[Len(trace)].kind = "close" )
    => (status = "Error" /\ polling_status = "Error")

\* C2: every message pushed to the buffer is returned by exactly one
\* receive() or is still in the buffer (the results so far followed by the
\* buffer are exactly the pushes, in order, nothing lost or repeated), and
\* the buffer is empty right after each receive().
C2_ReceiveDrainsExactlyOnce ==
    /\ [](Flatten(received) \o data = appended)
    /\ [][received' # received =>
            (data' = <<>> /\ Last(received').result = data)]_vars

\* C2 witness: two receive() calls each returned messages.
C2_Witness ==
    /\ Len(received) = 2
    /\ received[1].result # <<>>
    /\ received[2].result # <<>>

\* The messages the transport delivered as text or array buffer, classified,
\* in delivery order.
RECURSIVE DirectMessages(_, _)
DirectMessages(t, i) ==
    IF i > Len(t) THEN <<>>
    ELSE IF t[i].kind = "message" /\ t[i].payload.shape = "text"
    THEN <<Text(from_js(t[i].payload.bytes), i)>> \o DirectMessages(t, i + 1)
    ELSE IF t[i].kind = "message" /\ t[i].payload.shape = "arraybuffer"
    THEN <<Binary(t[i].payload.bytes, i)>> \o DirectMessages(t, i + 1)
    ELSE DirectMessages(t, i + 1)

NotFromBlob(m) == ~FromBlob(m)

\* C3: leaving out the messages that came as blobs, the results of the
\* receive() calls in call order, followed by the buffer, list the messages
\* exactly in the order of their message events.
C3_ReceiveFifo ==
    SelectSeq(Flatten(received) \o data, NotFromBlob) = DirectMessages(trace, 1)

\* C3 witness: receive() has returned two directly delivered messages and a
\* blob's message that arrived before them but was returned after them.
C3_Witness ==
    LET out == Flatten(received) IN
    /\ Len(out) = 3
    /\ FromBlob(out[3])
    /\ out[3].ev < out[1].ev
    /\ out[1].ev < out[2].ev

\* C4: the status is Connecting as long as the transport has reported
\* nothing, and once a status cell has left Connecting no step puts it back
\* (the EventClient's cell and the PollingClient's).
C4_NeverBackToConnecting ==
    /\ [](trace = <<>> => (status = "Connecting" /\ polling_status = "Connecting"))
    /\ [][ /\ (status # "Connecting" => status' # "Connecting")
           /\ (polling_status # "Connecting" => polling_status' # "Connecting")
         ]_vars

\* C4 witness: open, error and close have all been processed.
C4_Witness ==
    /\ Len(trace) = 3
    /\ trace[1].kind = "open"
    /\ trace[2].kind = "error"
    /\ trace[3].kind = "close"
    /\ status # "Connecting"
    /\ polling_status # "Connecting"

\* The transport signalled open, delivered the text "hello", signalled close.
Scenario ==
    /\ Len(trace) = 3
    /\ trace[1].kind = "open"
    /\ trace[2].kind = "message"
    /\ trace[2].payload = [shape |-> "text", bytes |-> to_js(Hello)]
    /\ trace[3].kind = "close"

\* C5: in that scenario status() went through Connecting, Connected,
\* Disconnected; a first receive() made after the close returned exactly
\* [Text("hello")], and the receive() after it returned [].
C5_OpenHelloClose ==
    Scenario =>
        /\ observed = <<"Connecting", "Connected", "Disconnected">>
        /\ (Len(received) >= 1 /\ received[1].at = 3) =>
               received[1].result = <<Text(Hello, 2)>>
        /\ (Len(received) >= 2 /\ received[1].at = 3) =>
               received[2].result = <<>>

\* C5 witness: the scenario has run and receive() was called twice after it.
C5_Witness ==
    /\ Scenario
    /\ Len(received) = 2
    /\ received[1].at = 3

\* C6: a receive() made when nothing was pushed to the buffer since the
\* previous receive() (or since construction) returns the empty sequence, and
\* a receive() on an empty buffer changes nothing of the client's state.
C6_ReceiveIdempotentWhenEmpty ==
    /\ [](\A i \in 1..Len(received) :
            received[i].napp = (IF i = 1 THEN 0 ELSE received[i-1].napp)
            => received[i].result = <<>>)
    /\ [][(received' # received /\ data = <<>>) =>
            UNCHANGED <<status, slots, readers, polling_status, data>>]_vars

\* C6 witness: a receive() that returned messages was followed by a second
\* receive() with nothing pushed in between.
C6_Witness ==
    /\ Len(received) = 2
    /\ received[1].result # <<>>
    /\ received[2].napp = received[1].napp

\* C7: while the value last passed to set_on_X is None, no step invokes a
\* handler for an event of kind X (a blob's completion included).
C7_ClearedHandlerNeverInvoked ==
    [][\A i \in (Len(calls) + 1)..Len(calls') :
          registered[calls'[i].kind] # None]_vars

\* C7 witness: a message handler was invoked, then cleared, and a blob
\* message that arrived after the clear has completed its read.
C7_Witness ==
    /\ registered["message"] = None
    /\ readers = {}
    /\ \E i \in 1..Len(calls), j \in 1..Len(trace) :
          /\ calls[i].kind = "message"
          /\ j > calls[i].ev
          /\ trace[j].kind = "message"
          /\ trace[j].payload.shape = "blob"
          /\ trace[j].slot = None

\* C8: a step invokes at most one handler, and it is the one last passed to
\* set_on_X for the event's kind; a notification that is not a blob message,
\* and a blob's completion, invoke that handler exactly once when one is
\* registered.
C8_OnlyLatestHandler ==
    [][ /\ calls' # calls =>
            /\ calls' = Append(calls, Last(calls'))
            /\ Last(calls').h = registered[Last(calls').kind]
        /\ ( /\ trace' # trace
             /\ Last(trace').payload.shape # "blob"
             /\ registered[Last(trace').kind] \in UserHandlers ) =>
            /\ Len(calls') = Len(calls) + 1
            /\ Last(calls').kind = Last(trace').kind
            /\ Last(calls').ev = Len(trace')
        /\ ( /\ readers' # readers
             /\ trace' = trace
             /\ registered["message"] \in UserHandlers ) =>
            /\ Len(calls') = Len(calls) + 1
            /\ Last(calls').kind = "message"
      ]_vars

\* C8 witness: two events of one kind were handled by two different
\* handlers, the second registered over the first.
C8_Witness ==
    \E i, j \in 1..Len(calls) :
        /\ i < j
        /\ calls[i].kind = calls[j].kind
        /\ calls[i].h # calls[j].h
        /\ registered[calls[j].kind] = calls[j].h

CallFromBlob(c) == trace[c.ev].payload.shape = "blob"

StatusAfter(kind) ==
    CASE kind = "open" -> "Connected"
      [] kind = "error" -> "Error"
      [] kind = "close" -> "Disconnected"

\* C12: an open, error or close notification that finds its slot empty
\* still stores its status, and invokes no user code.
C12_StatusWithoutHandler ==
    [][ ( /\ trace' # trace
          /\ Last(trace').kind \in {"open", "error", "close"}
          /\ Last(trace').slot = None ) =>
        ( /\ status' = StatusAfter(Last(trace').kind)
          /\ calls' = calls ) ]_vars

\* C12 witness: open, error and close were each processed with an empty
\* slot, and the status is the last one stored.
C12_Witness ==
    /\ Len(trace) = 3
    /\ trace[1].kind = "open"
    /\ trace[2].kind = "error"
    /\ trace[3].kind = "close"
    /\ \A i \in 1..3 : trace[i].slot = None
    /\ status = "Disconnected"
    /\ calls = <<>>

\* A Rust String holds chars only, never a surrogate code unit.
WellFormed(str) == \A j \in 1..Len(str) : str[j] \notin {"HI", "LO"}

\* The Message is the classification of the payload: Text spelling the same
\* text as the JS string, Binary holding the same bytes as the buffer or blob.
Classifies(m, p) ==
    CASE p.shape = "text" ->
           /\ m.tag = "Text"
           /\ WellFormed(m.body)
           /\ to_js(m.body) = p.bytes
      [] p.shape \in {"arraybuffer", "blob"} ->
           /\ m.tag = "Binary"
           /\ m.body = p.bytes

\* The Message is what send i sent: Text of the string passed to
\* send_string, Binary of the bytes passed to send_binary.
EchoOf(m, i) ==
    /\ m.body = sends[i].message
    /\ m.tag = (IF sends[i].fn = "send_string" THEN "Text" ELSE "Binary")

\* C13: every on_message invocation is for a message event, carries the
\* classification of that event's payload (Text with the same content for a
\* text payload, Binary with the same bytes for an array buffer or a blob),
\* and is the only invocation for that event; with an echo server, what it
\* carries is what some send sent, as Text for send_string and as Binary for
\* send_binary.
C13_ClassifiedOnce ==
    \A i \in 1..Len(calls) :
        calls[i].kind = "message" =>
            /\ trace[calls[i].ev].kind = "message"
            /\ calls[i].arg.ev = calls[i].ev
            /\ Classifies(calls[i].arg, trace[calls[i].ev].payload)
            /\ \A j \in 1..Len(calls) :
                   (calls[j].kind = "message" /\ calls[j].ev = calls[i].ev)
                   => j = i
            /\ \E k \in 1..Len(sends) :
                   /\ sends[k].at < calls[i].ev
                   /\ sends[k].frame.bytes = trace[calls[i].ev].payload.bytes
                   /\ EchoOf(calls[i].arg, k)

\* C13 witness: a string with a char outside the basic plane and a byte
\* vector were sent and echoed, the bytes as a blob, and the handler got the
\* string as Text and the bytes as Binary.
C13_Witness ==
    /\ Len(calls) = 2
    /\ readers = {}
    /\ \E i, j \in 1..2 :
          /\ calls[i].arg.tag = "Text"
          /\ calls[i].arg.body = <<"h", "U1F600">>
          /\ trace[calls[i].ev].payload.bytes = <<"h", "HI", "LO">>
          /\ calls[j].arg.tag = "Binary"
          /\ calls[j].arg.body = <<2, 15>>
          /\ trace[calls[j].ev].payload.shape = "blob"

\* The status transitions a connection attempt may make.
Listed(a, b) ==
    \/ a = "Connecting" /\ b = "Connected"
    \/ a \in {"Connecting", "Connected"} /\ b = "Error"
    \/ a \in {"Connecting", "Connected"} /\ b = "Disconnected"

\* C14: every change of a status cell (the EventClient's, the
\* PollingClient's) made while the transport reports its events is one of
\* the listed transitions, so Connected, Error and Disconnected are never
\* left for another status.
C14_ListedTransitionsOnly ==
    [][ Lifecycle(trace') =>
          /\ (status' # status => Listed(status, status'))
          /\ (polling_status' # polling_status =>
                 Listed(polling_status, polling_status')) ]_vars

\* The three status closures PollingClient::new installed are still in
\* their slots.
StatusHandlersInstalled ==
    \A k \in {"open", "error", "close"} : registered[k] = Internal

\* C15: as long as the status handlers PollingClient::new installed have not
\* been replaced, status() of the PollingClient equals the status of its
\* event_client after every notification.
C15_StatusMirrors ==
    StatusHandlersInstalled => polling_status = status

\* C15 witness: open, error and close were processed with the installed
\* status handlers in place (the message handler replaced), and both cells
\* went through the same four values.
C15_Witness ==
    /\ StatusHandlersInstalled
    /\ registered["message"] \in UserHandlers
    /\ Len(trace) = 3
    /\ trace[2].kind = "error"
    /\ observed = <<"Connecting", "Connected", "Error", "Disconnected">>
    /\ status = "Disconnected"
    /\ polling_status = "Disconnected"

\* C16: whenever an on_connection handler runs, the status it reads through
\* the client it is given is already Connected; the status is already Error
\* when an on_error handler runs and already Disconnected when an on_close
\* handler runs.
C16_StatusWrittenBeforeDispatch ==
    \A i \in 1..Len(calls) :
        calls[i].kind \in {"open", "error", "close"} =>
            calls[i].seen = StatusAfter(calls[i].kind)

\* C16 witness: an on_connection handler ran and read Connected, then an
\* on_close handler ran and read Disconnected.
C16_Witness ==
    /\ Len(calls) = 2
    /\ calls[1].kind = "open" /\ calls[1].seen = "Connected"
    /\ calls[2].kind = "close" /\ calls[2].seen = "Disconnected"

\* C17: once the on_message closure of a PollingClient's event_client has
\* been replaced, no step pushes to the buffer (a blob's completion
\* included) and the buffer changes only by receive(); a status
\* notification always stores its status in the event_client, and stores it
\* in the PollingClient exactly when the closure PollingClient::new installed
\* for that kind is still in its slot; and while the on_message closure is in
\* its slot, a directly delivered message and a blob's completion are pushed.
C17_ReplacementDropsThatKindOnly ==
    [][ /\ registered["message"] # Internal =>
              /\ appended' = appended
              /\ (data' = data \/ received' # received)
        /\ \A k \in {"open", "error", "close"} :
              (trace' # trace /\ Last(trace').kind = k) =>
                  /\ status' = StatusAfter(k)
                  /\ polling_status' = IF registered[k] = Internal
                                       THEN StatusAfter(k)
                                       ELSE polling_status
        /\ ( /\ registered["message"] = Internal
             /\ \/ /\ trace' # trace
                   /\ Last(trace').kind = "message"
                   /\ Last(trace').payload.shape # "blob"
                \/ readers' # readers /\ trace' = trace ) =>
              /\ Len(appended') = Len(appended) + 1
              /\ data' = Append(data, Last(appended'))
      ]_vars

\* C17 witness: a message was buffered, the on_message closure was then
\* replaced, a later message went to the new handler, and the receive()
\* after it returned the one message buffered before the replacement.
C17_Witness ==
    /\ registered["message"] \in UserHandlers
    /\ Len(appended) = 1
    /\ Len(calls) = 1
    /\ calls[1].kind = "message"
    /\ calls[1].ev > appended[1].ev
    /\ Len(received) = 1
    /\ received[1].at = Len(trace)
    /\ received[1].result = appended

\* The fields of an EventClient that hold client state.
StateFields == {"status", "on_error", "on_connection", "on_message", "on_close"}

\* C18: the client passed to on_connection and on_message handlers holds
\* the same status cell and the same four slot cells as the client new()
\* returned, in every state a read through either gives the same value, and
\* the status a handler reads through its client is the status of the
\* returned client at that moment.
C18_HandleIsTheClient ==
    /\ [](\A f \in StateFields :
             /\ InnerClient[f] = ReturnedClient[f]
             /\ Cell(InnerClient[f]) = Cell(ReturnedClient[f]))
    /\ [][calls' # calls =>
             /\ Last(calls').seen = status'
             /\ Last(calls').h = Cell(ReturnedClient[
                    CASE Last(calls').kind = "open" -> "on_connection"
                      [] Last(calls').kind = "error" -> "on_error"
                      [] Last(calls').kind = "message" -> "on_message"
                      [] Last(calls').kind = "close" -> "on_close"])]_vars

\* C18 witness: handlers set on the returned client after construction ran
\* for an open and for a message, and each read Connected through the
\* client it was given.
C18_Witness ==
    /\ Len(calls) = 2
    /\ calls[1].kind = "open"
    /\ calls[2].kind = "message"
    /\ calls[1].seen = "Connected"
    /\ calls[2].seen = "Connected"
    /\ status = "Connected"
    /\ calls[1].h = on_connection
    /\ calls[2].h = on_message

\* A close or error notification has been processed.
Down(t) == \E i \in 1..Len(t) : t[i].kind \in {"close", "error"}

\* The Message values a step delivers: pushed to the buffer or passed to an
\* on_message handler.
Delivered ==
    { appended'[i] : i \in (Len(appended) + 1)..Len(appended') }
    \cup { calls'[i].arg : i \in { j \in (Len(calls) + 1)..Len(calls') :
                                     calls'[j].kind = "message" } }

Buffered(n) == \E i \in 1..Len(appended) : appended[i].ev = n

\* The message of event n has been returned by a receive().
Returned(n) ==
    \E i \in 1..Len(received) :
        \E j \in 1..Len(received[i].result) : received[i].result[j].ev = n

\* C20: with receive() called again and again, every message pushed to the
\* buffer is eventually returned by a receive(); and a step that is not a
\* receive(), a status change to Error or Disconnected among them, leaves
\* every buffered message in the buffer, in place.
C20_BufferedEventuallyReturned ==
    /\ \A n \in 1..MaxEvents : Buffered(n) ~> Returned(n)
    /\ [][received' = received =>
            (Len(data') >= Len(data) /\ SubSeq(data', 1, Len(data)) = data)]_vars

\* C20 witness: a message was buffered, the connection then failed and
\* closed, and the receive() made after that returned the message.
C20_Witness ==
    /\ Len(trace) = 3
    /\ trace[1].kind = "message"
    /\ trace[2].kind = "error"
    /\ trace[3].kind = "close"
    /\ polling_status = "Disconnected"
    /\ Len(received) = 1
    /\ received[1].at = 3
    /\ Len(received[1].result) = 1
    /\ Returned(1)

\* What the slot of a kind holds after the step.
SlotAfter(kind) ==
    CASE kind = "error" -> on_error'
      [] kind = "open" -> on_connection'
      [] kind = "message" -> on_message'
      [] kind = "close" -> on_close'

\* C21: while a handler runs, the slot it was found in is not replaced: a
\* set_on_X called from inside a running handler of the same kind X panics
\* at the borrow and leaves every slot as it was, while a set_on_Y for
\* another kind Y, called from inside the handler, stores the new handler in
\* the slot of Y and only there; and the handler a notification invokes is
\* the one its slot held when the notification arrived, so a handler stored
\* that way runs for the next event of its kind.
C21_SlotHeldDuringDispatch ==
    [][ \A i \in (Len(calls) + 1)..Len(calls') :
          LET c == calls'[i] IN
          /\ SlotAfter(c.kind) = Slot(c.kind)
          /\ c.h = Slot(c.kind)
          /\ c.h \in ReentrantHandlers =>
                IF Target(c.h) = c.kind
                THEN /\ c.did.result = "panic"
                     /\ UNCHANGED <<slots, registered>>
                ELSE /\ c.did.result = "ok"
                     /\ SlotAfter(Target(c.h)) = NewHandler
                     /\ registered' =
                            [registered EXCEPT ![Target(c.h)] = NewHandler]
                     /\ \A k \in Kinds \ {Target(c.h)} : SlotAfter(k) = Slot(k)
      ]_vars

\* C21 witness: an on_connection handler set the on_message handler from
\* inside its body, the next message went to that handler, and an on_close
\* handler that called set_on_close from inside its body panicked and is
\* still in its slot.
C21_Witness ==
    /\ Len(calls) = 3
    /\ calls[1].kind = "open"
    /\ calls[1].h = "set_message"
    /\ calls[1].did.result = "ok"
    /\ calls[2].kind = "message"
    /\ calls[2].h = NewHandler
    /\ trace[calls[2].ev].slot = NewHandler
    /\ calls[3].kind = "close"
    /\ calls[3].h = "set_close"
    /\ calls[3].did = [set |-> "close", result |-> "panic"]
    /\ on_close = "set_close"
    /\ on_message = NewHandler
====
